---- MODULE Spec2Model ----
(***************************************************************************)
(* Model of src/API_Google.py: the three tool adapters GoogleSearchTool,   *)
(* GooglePlacesTool and get_place_working_hours.                           *)
(*                                                                         *)
(* Conventions.                                                            *)
(*  - A Python Optional value is a sequence of length <= 1: <<>> is None,  *)
(*    <<v>> is the value v.                                                *)
(*  - A Python str that the code only passes around (a key, a query, a     *)
(*    link) is one TLA+ string.  A str the code builds (an f-string, a     *)
(*    join) is the sequence of its pieces, with every line break "\n" a    *)
(*    piece of its own.  The location argument, which the code splits and  *)
(*    parses, is the sequence of its characters.                           *)
(*  - A JSON object / Python dict is a function from its keys; a missing   *)
(*    key is a key outside DOMAIN.                                         *)
(*  - A float coordinate is the integer 10^4 times its value.              *)
(***************************************************************************)
EXTENDS Integers, Sequences, FiniteSets, TLC

VARIABLES env, self, pc, call, http, request, response, outcome, prev

vars == <<env, self, pc, call, http, request, response, outcome, prev>>

\* ------------------------------------------------------------------ bounds

MaxItems == 2
MaxPlaces == 2
MaxPeriods == 2
MaxLocLen == 3

\* --------------------------------------------------------- Python helpers

None == <<>>

Some(x) == <<x>>

\* Python truthiness of an Optional[str]: None and "" are falsy.
Truthy(o) == o # None /\ o[1] # ""

\* a or b
Or(a, b) == IF Truthy(a) THEN a ELSE b

\* d.get(k, default)
Get(d, k, default) == IF k \in DOMAIN d THEN d[k] ELSE default

\* what an invocation ends with
Return(v) == [kind |-> "return", exc |-> "", value |-> v]

Raise(exc, msg) == [kind |-> "raise", exc |-> exc, value |-> msg]

NoOutcome == [kind |-> "none", exc |-> "", value |-> <<>>]

\* sep.join(parts), parts a sequence of built strings, sep a built string
RECURSIVE Join(_, _)
Join(sep, parts) ==
    IF Len(parts) = 0 THEN <<>>
    ELSE IF Len(parts) = 1 THEN parts[1]
    ELSE parts[1] \o sep \o Join(sep, Tail(parts))

\* ------------------------------------------------------------ environment

EnvKeys == {None, Some("envkey")}
EnvCx == {None, Some("envcx")}
ArgKeys == {None, Some("argkey")}
ArgCx == {None, Some("argcx")}

Queries == {"q1", "q2"}

\* ------------------------------------------------------- outbound request

NoRequest == [url |-> "", params |-> [none |-> ""]]
NoResponse == [net |-> "none"]
NoCall == [tool |-> "none"]
NoPrev == [set |-> FALSE]

\* requests.get failing before any response arrives
TransportFailures == {[net |-> "Timeout"], [net |-> "ConnectionError"]}

\* str(e) of the exception requests raises for a response
ErrStr(r) ==
    IF r.net # "ok" THEN r.net
    ELSE IF r.status >= 400 THEN "HTTPError"
    ELSE "JSONDecodeError"

\* requests.get(...); response.raise_for_status(); response.json() raises
RequestFails(r) == r.net # "ok" \/ r.status >= 400 \/ ~r.is_json

\* ------------------------------------------------------- GoogleSearchTool

GoogleSearchTool__init__(api_key, cx) ==
    [cls |-> "GoogleSearchTool",
     api_key |-> Or(api_key, env.GOOGLE_API_KEY),
     cx |-> Or(cx, env.GOOGLE_CSE_ID)]

Years == {None, Some(0), Some(2024)}

\* one item of the provider's "items" list
SearchItems ==
    {[title |-> "t1", link |-> "u1"], [title |-> "t2", link |-> "u2"], [title |-> "t3"]}

RECURSIVE SeqsUpTo(_, _)
SeqsUpTo(S, n) ==
    IF n = 0 THEN {<<>>}
    ELSE LET shorter == SeqsUpTo(S, n - 1)
         IN  shorter \cup {Append(q, x) : q \in {t \in shorter : Len(t) = n - 1}, x \in S}

OkResponse(status, is_json, body) ==
    [net |-> "ok", status |-> status, is_json |-> is_json, body |-> body]

NotJson == [raw |-> "<html>"]

\* what requests.get can end with for the Custom Search endpoint
SearchResponses ==
    TransportFailures
    \cup {OkResponse(500, TRUE, [error |-> "backend"]), OkResponse(200, FALSE, NotJson)}
    \cup {OkResponse(200, TRUE, [kind |-> "customsearch#search"])}
    \cup {OkResponse(200, TRUE, [kind |-> "customsearch#search", items |-> its]) :
            its \in SeqsUpTo(SearchItems, MaxItems)}

\* lines 46-49: the credential checks of forward
SearchValidate ==
    IF self.api_key = None
    THEN Raise("ValueError", <<"Missing Google API key. Make sure you have 'GOOGLE_API_KEY' in your env variables.">>)
    ELSE IF self.cx = None
    THEN Raise("ValueError", <<"Missing Custom Search Engine ID. Make sure you have 'GOOGLE_CSE_ID' in your env variables.">>)
    ELSE NoOutcome

\* lines 50-57: the query parameters
SearchParams(query, filter_year) ==
    IF filter_year # None
    THEN [key |-> self.api_key[1], cx |-> self.cx[1], q |-> query,
          sort |-> "date", dateRestrict |-> <<"y", ToString(filter_year[1])>>]
    ELSE [key |-> self.api_key[1], cx |-> self.cx[1], q |-> query]

SearchRequest(query, filter_year) ==
    [url |-> "https://www.googleapis.com/customsearch/v1",
     params |-> SearchParams(query, filter_year)]

\* Faulty variant: the year tested for truth, so that year 0 counts as absent
YearFilterMessageTruthy(filter_year) ==
    IF filter_year # None /\ filter_year[1] # 0
    THEN <<" with filter year=", ToString(filter_year[1])>>
    ELSE <<>>

\* line 69
YearFilterMessage(filter_year) ==
    IF filter_year # None THEN <<" with filter year=", ToString(filter_year[1])>> ELSE <<>>

\* line 70
NoResultsMessage(query, filter_year) ==
    <<"No results found for '", query, "'">> \o YearFilterMessage(filter_year)
        \o <<". Try with a more general query, or remove the year filter.">>

\* Faulty variant: the 0-based index of enumerate printed as it is
FormattedResultZeroBased(idx, item) ==
    <<ToString(idx), ". ", Get(item, "link", "#")>>

\* lines 72-76: position p of the sequence is idx = p - 1 of enumerate
FormattedResult(idx, item) ==
    <<ToString(idx + 1), ". ", Get(item, "link", "#")>>

WebSnippets(items) ==
    [p \in 1..Len(items) |-> FormattedResult(p - 1, items[p])]

\* line 77
SearchResultsText(items) ==
    <<"## Search Results", "\n">> \o Join(<<"\n", "\n">>, WebSnippets(items))

\* lines 58-77: what forward ends with once requests.get has ended with r
SearchOutcome(query, filter_year, r) ==
    IF RequestFails(r)
    THEN Raise("ValueError", <<"Error making request to Google Custom Search API: ", ErrStr(r)>>)
    ELSE LET results == r.body
         IN  IF "items" \notin DOMAIN results \/ Len(results.items) = 0
             THEN Return(NoResultsMessage(query, filter_year))
             ELSE Return(SearchResultsText(results.items))

\* ------------------------------------------------------- GooglePlacesTool

default_lat == 448176
default_lng == 204633
default_radius == 5000

\* line 99: os.getenv("GOOGLE_API_KEY", api_key)
GetEnv(value, default) == IF value # None THEN value ELSE default

GooglePlacesTool__init__(api_key) ==
    [cls |-> "GooglePlacesTool",
     google_api_key |-> GetEnv(env.GOOGLE_API_KEY, api_key),
     API_TYPE |-> "textsearch",
     url |-> <<"https://maps.googleapis.com/maps/api/place/", "textsearch", "/json">>,
     default_lat |-> default_lat,
     default_lng |-> default_lng,
     default_radius |-> default_radius]

\* the characters a location argument is made of
Chars == {"1", "2", ",", " ", "x"}
Digits == {"1", "2"}

Locations == {None} \cup {Some(s) : s \in SeqsUpTo(Chars, MaxLocLen)}
Radii == {None, Some(100)}

\* s.split(sep): the pieces between the separators, in order (never empty)
RECURSIVE Split(_, _)
Split(s, sep) ==
    IF \A i \in 1..Len(s) : s[i] # sep THEN <<s>>
    ELSE LET i == CHOOSE k \in 1..Len(s) : s[k] = sep /\ \A j \in 1..(k - 1) : s[j] # sep
         IN  <<SubSeq(s, 1, i - 1)>> \o Split(SubSeq(s, i + 1, Len(s)), sep)

\* s.strip()
RECURSIVE Strip(_)
Strip(s) ==
    IF Len(s) = 0 THEN s
    ELSE IF s[1] = " " THEN Strip(Tail(s))
    ELSE IF s[Len(s)] = " " THEN Strip(SubSeq(s, 1, Len(s) - 1))
    ELSE s

DigitValue(c) == IF c = "1" THEN 1 ELSE 2

\* float(s) succeeds: over Chars, exactly the non-empty digit strings
IsFloat(s) == Len(s) > 0 /\ \A i \in 1..Len(s) : s[i] \in Digits

\* float(s), in units of 10^-4
RECURSIVE Float(_)
Float(s) ==
    IF Len(s) = 0 THEN 0
    ELSE 10 * Float(SubSeq(s, 1, Len(s) - 1)) + 10000 * DigitValue(s[Len(s)])

\* Faulty variant: a longitude that does not parse falls back alone, beside the parsed
\* latitude
ParseLocationMixed(location) ==
    IF Truthy(location) /\ (\E i \in 1..Len(location[1]) : location[1][i] = ",")
    THEN LET parts == Split(location[1], ",")
         IN  IF Len(parts) # 2 THEN <<self.default_lat, self.default_lng>>
             ELSE IF ~IsFloat(Strip(parts[1])) THEN <<self.default_lat, self.default_lng>>
             ELSE IF ~IsFloat(Strip(parts[2])) THEN <<Float(Strip(parts[1])), self.default_lng>>
             ELSE <<Float(Strip(parts[1])), Float(Strip(parts[2]))>>
    ELSE <<self.default_lat, self.default_lng>>

\* lines 131-141
ParseLocation(location) ==
    IF Truthy(location) /\ (\E i \in 1..Len(location[1]) : location[1][i] = ",")
    THEN LET parts == Split(location[1], ",")
         IN  IF Len(parts) # 2 THEN <<self.default_lat, self.default_lng>>
             ELSE LET lat_str == parts[1]
                      lng_str == parts[2]
                  IN  IF ~IsFloat(Strip(lat_str)) THEN <<self.default_lat, self.default_lng>>
                      ELSE IF ~IsFloat(Strip(lng_str)) THEN <<self.default_lat, self.default_lng>>
                      ELSE <<Float(Strip(lat_str)), Float(Strip(lng_str))>>
    ELSE <<self.default_lat, self.default_lng>>

\* str() of an Optional[float]
FloatStr(o) == IF o = None THEN "None" ELSE ToString(o[1])

\* lines 145-148: lat and lng as _api_request uses them (line 148 assigns lat)
ApiLat(lat, lng) ==
    LET lat1 == IF lat = None THEN Some(self.default_lat) ELSE lat
    IN  IF lng = None THEN Some(self.default_lng) ELSE lat1

ApiLng(lat, lng) == lng

\* lines 149-164
PlacesParams(query, lat, lng, radius) ==
    IF self.API_TYPE = "findplacefromtext"
    THEN [key |-> self.google_api_key[1],
          input |-> query,
          inputtype |-> "textquery",
          fields |-> "formatted_address,name,place_id,geometry,types,rating,user_ratings_total",
          locationbias |-> <<"circle:", ToString(radius), "@",
                             FloatStr(ApiLat(lat, lng)), ",", FloatStr(ApiLng(lat, lng))>>]
    ELSE [key |-> self.google_api_key[1],
          query |-> query,
          location |-> <<FloatStr(ApiLat(lat, lng)), ",", FloatStr(ApiLng(lat, lng))>>,
          radius |-> radius]

\* line 127
SearchRadius(radius) == IF radius # None THEN radius[1] ELSE self.default_radius

\* lines 126-128: the request forward has _api_request make
PlacesRequest(query, location, radius) ==
    LET ll == ParseLocation(location)
    IN  [url |-> self.url,
         params |-> PlacesParams(query, Some(ll[1]), Some(ll[2]), SearchRadius(radius))]

\* line 124
PlacesValidate ==
    IF self.google_api_key = None
    THEN Raise("ValueError", <<"Missing Google API key. Make sure you have 'GOOGLE_API_KEY' in your env variables.">>)
    ELSE NoOutcome

\* one element of the provider's "results" list; a JSON number is its repr
PlaceItems ==
    {[name |-> "n1", formatted_address |-> "a1", place_id |-> "id1",
      rating |-> "4.5", user_ratings_total |-> "120"],
     [name |-> "n2", formatted_address |-> "a2", place_id |-> "id2"],
     [place_id |-> "id3", rating |-> "3.0"]}

PlacesResponses ==
    TransportFailures
    \cup {OkResponse(500, TRUE, [error |-> "backend"]), OkResponse(200, FALSE, NotJson)}
    \cup {OkResponse(200, TRUE, [status |-> "ZERO_RESULTS"])}
    \cup {OkResponse(200, TRUE, [status |-> "OK", results |-> ps]) :
            ps \in SeqsUpTo(PlaceItems, MaxPlaces)}

\* Faulty variant: the rating formatted whether or not the place has one
RatingInfoAlways(place) ==
    <<"\n", "Rating: ", Get(place, "rating", "0"), "/5 (",
      Get(place, "user_ratings_total", "0"), " reviews)">>

\* lines 186-190
RatingInfo(place) ==
    IF "rating" \in DOMAIN place
    THEN <<"\n", "Rating: ", Get(place, "rating", "0"), "/5 (",
           Get(place, "user_ratings_total", "0"), " reviews)">>
    ELSE <<>>

\* lines 183-191
FormatPlace(place) ==
    [name |-> Get(place, "name", "Unnamed location"),
     address |-> Get(place, "formatted_address", "No address available"),
     rating_info |-> RatingInfo(place),
     place_id |-> Get(place, "place_id", "No ID")]

\* Faulty variant: no early return for an empty list of places
FormatPlacesAlwaysList(query, places, lat, lng, radius) ==
    [shape |-> "list",
     list |-> [p \in 1..Len(places) |-> FormatPlace(places[p])]]

\* lines 177-192
FormatPlaces(query, places, lat, lng, radius) ==
    IF Len(places) = 0
    THEN [shape |-> "str",
          text |-> <<"No places found for '", query, "' within ", ToString(radius),
                     "m of coordinates ", ToString(lat), ",", ToString(lng), ".">>]
    ELSE [shape |-> "list",
          list |-> [p \in 1..Len(places) |-> FormatPlace(places[p])]]

\* lines 165-175: what _api_request returns or raises
ApiRequestOutcome(r) ==
    IF RequestFails(r)
    THEN Raise("ValueError", <<"Error making request to Google Places API: ", ErrStr(r)>>)
    ELSE IF self.API_TYPE = "findplacefromtext"
    THEN Return(Get(r.body, "candidates", <<>>))
    ELSE Return(Get(r.body, "results", <<>>))

\* lines 126-129: what forward ends with once requests.get has ended with r
PlacesOutcome(query, location, radius, r) ==
    LET ll == ParseLocation(location)
        places == ApiRequestOutcome(r)
    IN  IF places.kind = "raise" THEN places
        ELSE Return(FormatPlaces(query, places.value, ll[1], ll[2], SearchRadius(radius)))

\* ------------------------------------------------ get_place_working_hours

PlaceIds == {"id1", "id2"}

\* line 216: os.environ['GOOGLE_API_KEY']
HoursEnvLookup ==
    IF env.GOOGLE_API_KEY = None THEN Raise("KeyError", <<"GOOGLE_API_KEY">>) ELSE NoOutcome

\* lines 217-226
HoursRequest(place_id) ==
    [url |-> "https://maps.googleapis.com/maps/api/place/details/json",
     params |-> [place_id |-> place_id, fields |-> "name,url,opening_hours",
                 key |-> env.GOOGLE_API_KEY[1]]]

Periods ==
    {[open |-> [day |-> 1, time |-> "0900"], close |-> [day |-> 1, time |-> "1700"]],
     [open |-> [day |-> 1, time |-> "1800"], close |-> [day |-> 1, time |-> "2200"]],
     [open |-> [day |-> 0, time |-> "0000"]]}

\* what requests.get can end with for the Place Details endpoint; the call sets no
\* timeout, so a provider that never answers never ends it
HoursResponses ==
    {[net |-> "ConnectionError"]}
    \cup {OkResponse(200, FALSE, NotJson)}
    \cup {OkResponse(403, TRUE, [status |-> "REQUEST_DENIED"])}
    \cup {OkResponse(200, TRUE, [status |-> "NOT_FOUND"])}
    \cup {OkResponse(200, TRUE, [status |-> "OK", result |-> [name |-> "n1"]])}
    \cup {OkResponse(200, TRUE, [status |-> "OK",
                                 result |-> [opening_hours |-> [open_now |-> TRUE]]])}
    \cup {OkResponse(st, TRUE, [status |-> "OK",
                                result |-> [opening_hours |-> [periods |-> ps]]]) :
            st \in {200, 500}, ps \in SeqsUpTo(Periods, MaxPeriods)}

\* lines 227-229: every subscript raises on a missing key or index
HoursExtract(body) ==
    IF "result" \notin DOMAIN body THEN Raise("KeyError", <<"result">>)
    ELSE IF "opening_hours" \notin DOMAIN body.result THEN Raise("KeyError", <<"opening_hours">>)
    ELSE IF "periods" \notin DOMAIN body.result.opening_hours THEN Raise("KeyError", <<"periods">>)
    ELSE IF Len(body.result.opening_hours.periods) = 0
    THEN Raise("IndexError", <<"list index out of range">>)
    ELSE LET hours == body.result.opening_hours.periods[1]
         IN  IF "open" \notin DOMAIN hours THEN Raise("KeyError", <<"open">>)
             ELSE IF "time" \notin DOMAIN hours.open THEN Raise("KeyError", <<"time">>)
             ELSE IF "close" \notin DOMAIN hours THEN Raise("KeyError", <<"close">>)
             ELSE IF "time" \notin DOMAIN hours.close THEN Raise("KeyError", <<"time">>)
             ELSE Return([open_time |-> hours.open.time, close_time |-> hours.close.time])

\* lines 226-229: what the function ends with once requests.get has ended with r
HoursOutcome(place_id, r) ==
    IF r.net # "ok" THEN Raise(r.net, <<r.net>>)
    ELSE IF ~r.is_json THEN Raise("JSONDecodeError", <<"JSONDecodeError">>)
    ELSE HoursExtract(r.body)

\* ------------------------------------------------------------ invocations

Validate(c) ==
    CASE c.tool = "web_search" -> SearchValidate
      [] c.tool = "places_search" -> PlacesValidate
      [] c.tool = "get_place_working_hours" -> HoursEnvLookup

RequestOf(c) ==
    CASE c.tool = "web_search" -> SearchRequest(c.query, c.filter_year)
      [] c.tool = "places_search" -> PlacesRequest(c.query, c.location, c.radius)
      [] c.tool = "get_place_working_hours" -> HoursRequest(c.place_id)

OutcomeOf(c, r) ==
    CASE c.tool = "web_search" -> SearchOutcome(c.query, c.filter_year, r)
      [] c.tool = "places_search" -> PlacesOutcome(c.query, c.location, c.radius, r)
      [] c.tool = "get_place_working_hours" -> HoursOutcome(c.place_id, r)

\* Faulty variant: forward keeps the radius it was given as the adapter's new default
InvokeKeepsRadius(c, p) ==
    /\ call' = c
    /\ prev' = p
    /\ response' = NoResponse
    /\ IF Validate(c) # NoOutcome
       THEN /\ pc' = "done"
            /\ outcome' = Validate(c)
            /\ http' = 0
            /\ request' = NoRequest
       ELSE /\ pc' = "waiting"
            /\ outcome' = NoOutcome
            /\ http' = 0 + 1
            /\ request' = RequestOf(c)
    /\ self' = IF c.tool = "places_search" /\ c.radius # None
               THEN [self EXCEPT !.default_radius = c.radius[1]]
               ELSE self
    /\ UNCHANGED env

\* An invocation starts: the credential checks, then the one requests.get.
Invoke(c, p) ==
    /\ call' = c
    /\ prev' = p
    /\ response' = NoResponse
    /\ IF Validate(c) # NoOutcome
       THEN /\ pc' = "done"
            /\ outcome' = Validate(c)
            /\ http' = 0
            /\ request' = NoRequest
       ELSE /\ pc' = "waiting"
            /\ outcome' = NoOutcome
            /\ http' = 0 + 1
            /\ request' = RequestOf(c)
    /\ UNCHANGED <<env, self>>

\* Faulty variant: a failed request is issued once more
CompleteWithRetry(r) ==
    /\ pc = "waiting"
    /\ prev.set => r = prev.response
    /\ response' = r
    /\ IF r.net # "ok" /\ http < 2
       THEN /\ http' = http + 1
            /\ pc' = "waiting"
            /\ outcome' = NoOutcome
       ELSE /\ http' = http
            /\ pc' = "done"
            /\ outcome' = OutcomeOf(call, r)
    /\ UNCHANGED <<env, self, call, request, prev>>

\* requests.get ends with r and the invocation runs to its end.
Complete(r) ==
    /\ pc = "waiting"
    /\ prev.set => r = prev.response
    /\ response' = r
    /\ outcome' = OutcomeOf(call, r)
    /\ pc' = "done"
    /\ UNCHANGED <<env, self, call, http, request, prev>>

SearchForward ==
    /\ pc = "idle"
    /\ self.cls = "GoogleSearchTool"
    /\ \E query \in Queries, filter_year \in Years :
          Invoke([tool |-> "web_search", query |-> query, filter_year |-> filter_year], NoPrev)

SearchResponse ==
    /\ call.tool = "web_search"
    /\ \E r \in SearchResponses : Complete(r)

PlacesForward ==
    /\ pc = "idle"
    /\ self.cls = "GooglePlacesTool"
    /\ \E query \in Queries, location \in Locations, radius \in Radii :
          Invoke([tool |-> "places_search", query |-> query, location |-> location,
                  radius |-> radius], NoPrev)

PlacesResponse ==
    /\ call.tool = "places_search"
    /\ \E r \in PlacesResponses : Complete(r)

GetPlaceWorkingHours ==
    /\ pc = "idle"
    /\ \E place_id \in PlaceIds :
          Invoke([tool |-> "get_place_working_hours", place_id |-> place_id], NoPrev)

HoursResponse ==
    /\ call.tool = "get_place_working_hours"
    /\ \E r \in HoursResponses : Complete(r)

\* The caller invokes the same tool again with the same arguments, the provider's
\* answer unchanged.
Repeat ==
    /\ pc = "done"
    /\ ~prev.set
    /\ Invoke(call, [set |-> TRUE, response |-> response, outcome |-> outcome])

\* The invocation's result or exception has reached the caller; nothing of the
\* invocation is kept.
Finish ==
    /\ pc = "done"
    /\ pc' = "idle"
    /\ call' = NoCall
    /\ http' = 0
    /\ request' = NoRequest
    /\ response' = NoResponse
    /\ outcome' = NoOutcome
    /\ prev' = NoPrev
    /\ UNCHANGED <<env, self>>

Init ==
    /\ env \in [GOOGLE_API_KEY : EnvKeys, GOOGLE_CSE_ID : EnvCx]
    /\ self \in {GoogleSearchTool__init__(k, cx) : k \in ArgKeys, cx \in ArgCx}
                \cup {GooglePlacesTool__init__(k) : k \in ArgKeys}
    /\ pc = "idle"
    /\ call = NoCall
    /\ http = 0
    /\ request = NoRequest
    /\ response = NoResponse
    /\ outcome = NoOutcome
    /\ prev = NoPrev

Next ==
    \/ SearchForward
    \/ SearchResponse
    \/ PlacesForward
    \/ PlacesResponse
    \/ GetPlaceWorkingHours
    \/ HoursResponse
    \/ Repeat
    \/ Finish

Spec == Init /\ [][Next]_vars

\* ----------------------------------------------------------------- claims

\* The error kinds of the specification, as the code spells them: both the
\* configuration error and the provider error are a ValueError, told apart by
\* their message; every other exception reaches the caller as it was raised.
ErrorKind(o) ==
    IF o.kind # "raise" THEN "none"
    ELSE IF o.exc = "ValueError"
            /\ o.value[1] \in {"Missing Google API key. Make sure you have 'GOOGLE_API_KEY' in your env variables.",
                               "Missing Custom Search Engine ID. Make sure you have 'GOOGLE_CSE_ID' in your env variables."}
    THEN "ConfigurationError"
    ELSE IF o.exc = "ValueError"
            /\ o.value[1] \in {"Error making request to Google Custom Search API: ",
                               "Error making request to Google Places API: "}
    THEN "ProviderError"
    ELSE IF o.exc \in {"NotFoundError", "DataShapeError"} THEN "NotFoundError"
    ELSE "Unhandled"

\* a credential the invoked adapter requires is absent
CredentialAbsent(c) ==
    CASE c.tool = "web_search" -> self.api_key = None \/ self.cx = None
      [] c.tool = "places_search" -> self.google_api_key = None
      [] c.tool = "get_place_working_hours" -> env.GOOGLE_API_KEY = None
      [] OTHER -> FALSE

\* the request ended in a transport failure, a non-2xx status or a non-JSON body
ProviderFailure(r) == r.net # "ok" \/ r.status \notin 200..299 \/ ~r.is_json

Lines(s) == Split(s, "\n")

\* C1: an invocation of any of the three adapters with a required credential
\* absent ends with the configuration error and has issued no HTTP request.
C1_AbsentCredentialIsConfigurationError ==
    (call.tool # "none" /\ CredentialAbsent(call)) =>
        /\ http = 0
        /\ pc = "done" => ErrorKind(outcome) = "ConfigurationError"

\* C2: for every adapter, a request that ended in a transport failure, a non-2xx
\* status or a non-JSON body makes the invocation fail with the provider error:
\* it raises, returns no value, and is not turned into a success.
C2_ProviderFailureIsProviderError ==
    (pc = "done" /\ response.net # "none" /\ ProviderFailure(response)) =>
        /\ outcome.kind = "raise"
        /\ ErrorKind(outcome) = "ProviderError"

\* C3: the hours lookup, given a JSON answer without opening hours or with an
\* empty periods list, fails with the not-found / data-shape error and never with
\* a KeyError or IndexError; given a non-empty periods list it returns open_time
\* and close_time of the first period.
C3_HoursMissingDataIsNotFound ==
    (pc = "done" /\ call.tool = "get_place_working_hours"
        /\ response.net = "ok" /\ response.status = 200 /\ response.is_json) =>
        LET body == response.body
            has_periods == /\ "result" \in DOMAIN body
                           /\ "opening_hours" \in DOMAIN body.result
                           /\ "periods" \in DOMAIN body.result.opening_hours
                           /\ Len(body.result.opening_hours.periods) > 0
        IN  /\ outcome.exc \notin {"KeyError", "IndexError"}
            /\ ~has_periods => ErrorKind(outcome) = "NotFoundError"
            /\ has_periods =>
                  /\ outcome.kind = "return"
                  /\ outcome.value.open_time = body.result.opening_hours.periods[1].open.time
                  /\ outcome.value.close_time = body.result.opening_hours.periods[1].close.time

\* a web search that got N >= 1 items
SearchGotItems ==
    /\ pc = "done" /\ call.tool = "web_search"
    /\ ~ProviderFailure(response)
    /\ "items" \in DOMAIN response.body
    /\ Len(response.body.items) >= 1

\* the i-th result line: its 1-based index, ". ", and the item's link
IsResultLine(line, i, item) ==
    /\ Len(line) = 3
    /\ line[1] = ToString(i)
    /\ line[2] = ". "
    /\ "link" \in DOMAIN item => line[3] = item.link

\* C4 as stated: after the fixed header the returned string has exactly N lines,
\* the i-th beginning with "i. " and showing the link of the i-th item.
C4_ExactlyNLines ==
    SearchGotItems =>
        LET items == response.body.items
            ls == Lines(outcome.value)
        IN  /\ outcome.kind = "return"
            /\ ls[1] = <<"## Search Results">>
            /\ Len(ls) = Len(items) + 1
            /\ \A i \in 1..Len(items) : IsResultLine(ls[i + 1], i, items[i])

\* C4 as amended: after the fixed header line the returned string has exactly N
\* non-empty lines, the i-th being "i. " followed by the i-th item's link ("#"
\* for an item without one), with one empty line between two consecutive ones.
C4_NResultLinesBlankSeparated ==
    SearchGotItems =>
        LET items == response.body.items
            ls == Lines(outcome.value)
        IN  /\ outcome.kind = "return"
            /\ ls[1] = <<"## Search Results">>
            /\ Len(ls) = 2 * Len(items)
            /\ \A i \in 1..Len(items) :
                  /\ IsResultLine(ls[2 * i], i, items[i])
                  /\ "link" \notin DOMAIN items[i] => ls[2 * i][3] = "#"
            /\ \A i \in 1..(Len(items) - 1) : ls[2 * i + 1] = <<>>

C4_Witness ==
    /\ SearchGotItems
    /\ Len(response.body.items) = 2
    /\ "link" \in DOMAIN response.body.items[2]
    /\ outcome.kind = "return"

\* a web search whose answer carries no items
SearchGotNoItems ==
    /\ pc = "done" /\ call.tool = "web_search"
    /\ ~ProviderFailure(response)
    /\ ("items" \notin DOMAIN response.body \/ Len(response.body.items) = 0)

\* C5: a web search whose answer has no "items" field or an empty items list
\* returns (raises nothing) the "no results" message, which holds the query
\* verbatim and names the year filter's value iff filter_year was given.
C5_NoResultsMessage ==
    SearchGotNoItems =>
        LET v == outcome.value
        IN  /\ outcome.kind = "return"
            /\ Len(v) >= 4
            /\ v[1] = "No results found for '"
            /\ v[2] = call.query
            /\ v[3] = "'"
            /\ call.filter_year # None =>
                  v[4] = " with filter year=" /\ v[5] = ToString(call.filter_year[1])
            /\ call.filter_year = None =>
                  \A i \in 1..Len(v) : v[i] \notin {" with filter year=", "0", "2024"}

C5_Witness ==
    /\ SearchGotNoItems
    /\ call.filter_year = Some(0)
    /\ "items" \in DOMAIN response.body
    /\ outcome.kind = "return"

\* the positions of the separator in a location string
Commas(s) == {i \in 1..Len(s) : s[i] = ","}

\* a component is numeric: digits, with blanks before and after them only
Numeric(t) ==
    \E a, b \in 1..Len(t) :
        /\ a <= b
        /\ \A i \in 1..Len(t) : IF a <= i /\ i <= b THEN t[i] \in Digits ELSE t[i] = " "

\* the decimal value of the digits of t
RECURSIVE DecVal(_)
DecVal(t) ==
    IF Len(t) = 0 THEN 0
    ELSE LET front == SubSeq(t, 1, Len(t) - 1)
         IN  IF t[Len(t)] = " " THEN DecVal(front)
             ELSE 10 * DecVal(front) + (IF t[Len(t)] = "1" THEN 1 ELSE 2)

Left(s) == SubSeq(s, 1, (CHOOSE i \in Commas(s) : TRUE) - 1)
Right(s) == SubSeq(s, (CHOOSE i \in Commas(s) : TRUE) + 1, Len(s))

\* a well-formed "lat,lng": exactly two components, both numeric
WellFormed(location) ==
    /\ location # None
    /\ Cardinality(Commas(location[1])) = 1
    /\ Numeric(Left(location[1]))
    /\ Numeric(Right(location[1]))

\* the pair the claim asks for, in units of 10^-4
ExpectedPair(location) ==
    IF WellFormed(location)
    THEN <<10000 * DecVal(Left(location[1])), 10000 * DecVal(Right(location[1]))>>
    ELSE <<448176, 204633>>

\* C6: the coordinates forward puts in the outbound request are the pair parsed
\* from a well-formed "lat,lng" argument and otherwise (absent, no separator,
\* wrong number of components, a non-numeric component) exactly the default pair
\* 44.8176, 20.4633, in that order; the invocation never ends with an exception
\* of the parsing.
C6_RequestCoordinates ==
    (call.tool = "places_search" /\ ~CredentialAbsent(call)) =>
        /\ pc \in {"waiting", "done"}
        /\ request.params.location =
              <<ToString(ExpectedPair(call.location)[1]), ",",
                ToString(ExpectedPair(call.location)[2])>>
        /\ (pc = "done" /\ ~ProviderFailure(response)) => outcome.kind = "return"

C6_Witness ==
    /\ call.tool = "places_search" /\ pc = "done" /\ http = 1
    /\ call.location = Some(<<"x", ",", "2">>)
    /\ request.params.location = <<"448176", ",", "204633">>

C6_WitnessParsed ==
    /\ call.tool = "places_search" /\ pc = "done" /\ http = 1
    /\ call.location = Some(<<"1", ",", "2">>)
    /\ request.params.location = <<"10000", ",", "20000">>

\* C7: an invocation that passes the credential checks issues exactly one HTTP
\* request: one is in flight while it waits, and it has issued one, never a
\* second, when it returns or fails.
C7_ExactlyOneRequest ==
    /\ pc = "waiting" => http = 1
    /\ (pc = "done" /\ ~CredentialAbsent(call)) => http = 1

C7_Witness ==
    /\ pc = "done" /\ http = 1
    /\ response.net = "Timeout"
    /\ outcome.kind = "raise"

\* a places search that got an answer
PlacesAnswered ==
    /\ pc = "done" /\ call.tool = "places_search"
    /\ ~ProviderFailure(response)

ProviderPlaces == Get(response.body, "results", <<>>)

C8_WitnessEmpty ==
    /\ PlacesAnswered
    /\ "results" \in DOMAIN response.body
    /\ Len(ProviderPlaces) = 0
    /\ outcome.value.shape = "str"

\* C9: a record's rating summary is non-empty iff the provider's place has a
\* rating field; without one it is empty and holds no default rating.
C9_RatingInfoIffRating ==
    (PlacesAnswered /\ Len(ProviderPlaces) >= 1) =>
        \A i \in 1..Len(ProviderPlaces) :
            LET info == outcome.value.list[i].rating_info
            IN  /\ (info # <<>>) <=> ("rating" \in DOMAIN ProviderPlaces[i])
                /\ "rating" \in DOMAIN ProviderPlaces[i] =>
                      \E k \in 1..Len(info) : info[k] = ProviderPlaces[i].rating

C9_Witness ==
    /\ PlacesAnswered
    /\ Len(ProviderPlaces) = 2
    /\ "rating" \in DOMAIN ProviderPlaces[1]
    /\ "rating" \notin DOMAIN ProviderPlaces[2]
    /\ outcome.value.list[2].rating_info = <<>>

====
